---- MODULE Spec2Model ----
(***************************************************************************)
(* Satellite/ground-site conjunction finder                                *)
(* (Polar-Cap-Scintillation/conjunctions).                                 *)
(*                                                                         *)
(* Time is counted in whole sampling units (the code's unix seconds); a    *)
(* datetime and its unix value are the same integer here.  Positions are   *)
(* integer 3-vectors.  Array indices are 1-based (numpy's index k is k+1   *)
(* here).                                                                  *)
(***************************************************************************)
EXTENDS Integers, Sequences, FiniteSets

VARIABLES
    conj,     \* the SatConj instance (satellite_conjunction.py)
    tle,      \* the TLEHandler instance (propagate_tle.py)
    input,    \* arguments prepared by the caller of a pure operation
    call,     \* the last call made and what it returned or raised
    db        \* the stores a call reads: the radar's site and experiment
              \* table, the catalog server's snapshots of the satellite

vars == <<conj, tle, input, call, db>>

(***************************************************************************)
(* Bounds of the model.                                                    *)
(***************************************************************************)
MaxTime == 4       \* timestamps, start and end times range over 0..MaxTime
MaxEpoch == 3      \* snapshot epochs range over 0..MaxEpoch
MaxTLE == 2        \* snapshots in a library
MaxLen == 3        \* timestamps handed to TLEHandler.sat_position
MaxDelTime == 2    \* sampling interval ranges over 1..MaxDelTime
MaxSamples == 6    \* samples handed to the pass segmenter
MaxExp == 2        \* rows of the radar's experiment table
MaxCoord == 2      \* components of a position handed to the frame rotation
MaxDate == 3       \* dates of the PRN table range over 0..MaxDate
MaxRows == 2       \* rows of the PRN table

Times == 0..MaxTime
Epochs == 0..MaxEpoch
DelTimes == 1..MaxDelTime

(***************************************************************************)
(* numpy helpers.                                                          *)
(***************************************************************************)
Abs(x) == IF x < 0 THEN -x ELSE x

SeqsUpTo(S, n) == UNION {[1..k -> S] : k \in 0..n}

RECURSIVE ArangeInclusive(_, _, _)
ArangeInclusive(start, stop, step) ==
    IF start > stop THEN <<>>
    ELSE <<start>> \o ArangeInclusive(start + step, stop, step)

\* np.arange(start, stop, step) for step > 0
RECURSIVE Arange(_, _, _)
Arange(start, stop, step) ==
    IF start >= stop THEN <<>>
    ELSE <<start>> \o Arange(start + step, stop, step)

\* a[mask]: boolean-mask indexing keeps the masked elements in array order
RECURSIVE Select(_, _)
Select(a, mask) ==
    IF a = <<>> THEN <<>>
    ELSE (IF Head(mask) THEN <<Head(a)>> ELSE <<>>) \o Select(Tail(a), Tail(mask))

\* np.argmin scans left to right and keeps the first minimum
RECURSIVE ArgMinFrom(_, _, _)
ArgMinFrom(v, i, best) ==
    IF i > Len(v) THEN best
    ELSE ArgMinFrom(v, i + 1, IF v[i] < v[best] THEN i ELSE best)

ArgMinLast(v) ==
    CHOOSE k \in DOMAIN v :
        /\ \A j \in DOMAIN v : v[k] <= v[j]
        /\ \A j \in DOMAIN v : j > k => v[j] > v[k]

ArgMin(v) == ArgMinFrom(v, 2, 1)

\* np.unique: the distinct values, ascending
RECURSIVE SortedSeq(_)
SortedSeq(S) ==
    IF S = {} THEN <<>>
    ELSE LET m == CHOOSE x \in S : \A y \in S : x <= y
         IN <<m>> \o SortedSeq(S \ {m})

Unique(a) == SortedSeq({a[i] : i \in DOMAIN a})

(***************************************************************************)
(* Element snapshots.  A TLE is its two text lines; the model keeps the    *)
(* epoch field of line 1, which also stands for the element set.           *)
(***************************************************************************)
TLEs == [epoch : Epochs]

\* line 1, columns 18..32: epoch parsed from each TLE
EpochOf(TLE_list) == [i \in DOMAIN TLE_list |-> TLE_list[i].epoch]

(***************************************************************************)
(* propagate_tle: sgp4 (external) then the sidereal rotation TEME -> PEF.  *)
(***************************************************************************)
\* positions (km, TEME) the external propagator walks through, one per
\* time unit since the snapshot's epoch
OrbitPath ==
    << <<0, 0, 2>>, <<1, 0, 1>>, <<0, 0, 1>>, <<1, 0, 0>>, <<2, 0, 2>>, <<1, 0, -1>> >>

\* tle.propagate(...): the external sgp4 propagator, a deterministic
\* function of the element set and the time
Sgp4(TLE, t) == OrbitPath[((t - TLE.epoch) % Len(OrbitPath)) + 1]

\* GMST reduced modulo one turn; the model's time unit is a quarter of a
\* sidereal day, so the angle is a whole number of quarter turns
GMST(t) == t % 4

Cos4(q) == CASE q = 0 -> 1 [] q = 1 -> 0 [] q = 2 -> -1 [] q = 3 -> 0
Sin4(q) == CASE q = 0 -> 0 [] q = 1 -> 1 [] q = 2 -> 0 [] q = 3 -> -1

RotateTransposed(g, p) ==
    << Cos4(g) * p[1] - Sin4(g) * p[2],
       Sin4(g) * p[1] + Cos4(g) * p[2],
       p[3] >>

\* np.dot(Rot, position_TEME), Rot = [[cos, sin, 0], [-sin, cos, 0], [0, 0, 1]]
Rotate(g, p) ==
    << Cos4(g) * p[1] + Sin4(g) * p[2],
       (0 - Sin4(g)) * p[1] + Cos4(g) * p[2],
       p[3] >>

MetresPerKm == 1000

PropagateOne(t, TLE) ==
    LET pef == Rotate(GMST(t), Sgp4(TLE, t))
    IN <<pef[1] * MetresPerKm, pef[2] * MetresPerKm, pef[3] * MetresPerKm>>

\* propagate_tle(time0, TLE): one position per element of time0, in order
Propagate(time0, TLE) == [k \in DOMAIN time0 |-> PropagateOne(time0[k], TLE)]

(***************************************************************************)
(* Nearest-epoch selection and the position-building loop, shared by       *)
(* TLEHandler.sat_position and SatConj.conjunctions.                        *)
(***************************************************************************)
\* [np.argmin(np.abs(ut - unix_TLE_epoch)) for ut in unix_time_array]
ClosestEpochIdx(time_array, TLE_epoch) ==
    [k \in DOMAIN time_array |->
        ArgMin([j \in DOMAIN TLE_epoch |-> Abs(time_array[k] - TLE_epoch[j])])]

\* for i in np.unique(closest_epoch_idx): append propagate_tle(subset_times, TLE_list[i])
RECURSIVE AppendGroups(_, _, _, _)
AppendGroups(groups, time_array, idx, TLE_list) ==
    IF groups = <<>> THEN <<>>
    ELSE LET i == Head(groups)
             subset_times == Select(time_array, [k \in DOMAIN idx |-> idx[k] = i])
         IN Propagate(subset_times, TLE_list[i])
                \o AppendGroups(Tail(groups), time_array, idx, TLE_list)

\* range(n)
Range(n) == [i \in 1..n |-> i]

LoopGroupsRange(closest_epoch_idx, TLE_list) == Range(Len(TLE_list))

\* the snapshot indices the position loop of SatConj.conjunctions and
\* TLEHandler.sat_position visits: np.unique(closest_epoch_idx)
LoopGroups(closest_epoch_idx, TLE_list) == Unique(closest_epoch_idx)

SatPositions(time_array, idx, TLE_list) ==
    AppendGroups(LoopGroups(idx, TLE_list), time_array, idx, TLE_list)

\* a snapshot whose epoch field parses but whose element lines do not:
\* twoline2rv raises ValueError on it
BadTLEs == [epoch : Epochs, malformed : {TRUE}]
Malformed(TLE) == "malformed" \in DOMAIN TLE

\* the calls of propagate_tle made by a loop over the snapshot indices
\* `groups`, in order: each call gets TLE_list[i] and the timestamps whose
\* nearest snapshot is i.  The loop ends at the first call that raises.
RECURSIVE PropagateCalls(_, _, _, _)
PropagateCalls(groups, time_array, idx, TLE_list) ==
    IF groups = <<>> THEN <<>>
    ELSE LET i == Head(groups)
             subset_times == Select(time_array, [k \in DOMAIN idx |-> idx[k] = i])
         IN <<[snapshot |-> i, times |-> subset_times]>>
                \o (IF Malformed(TLE_list[i]) THEN <<>>
                    ELSE PropagateCalls(Tail(groups), time_array, idx, TLE_list))

PropagateFailedNever(calls, TLE_list) == FALSE

\* TRUE when one of the calls raised
PropagateFailed(calls, TLE_list) ==
    \E k \in DOMAIN calls : Malformed(TLE_list[calls[k].snapshot])

NoCall == [op |-> "none"]
NoObject == [class |-> "none"]
NoInput == [kind |-> "none"]
NoDatabase == [radar |-> "none"]

(***************************************************************************)
(* TLEHandler (propagate_tle.py).                                          *)
(***************************************************************************)
\* a library read from a local file: any order, duplicates possible
TLEHandlers ==
    {[class |-> "TLEHandler", TLE_list |-> l, TLE_epoch |-> EpochOf(l)] :
        l \in SeqsUpTo(TLEs, MaxTLE)}

TimeArrays == SeqsUpTo(Times, MaxLen)

\* TLEHandler.sat_position(time_array)
SatPositionResult(self, time_array) ==
    IF time_array # <<>> /\ self.TLE_epoch = <<>>
    THEN \* np.argmin of an empty array
         [op |-> "sat_position", time_array |-> time_array,
          error |-> "ValueError", propagated |-> <<>>,
          closest_epoch_idx |-> <<>>, sat_position |-> <<>>]
    ELSE LET idx == ClosestEpochIdx(time_array, self.TLE_epoch)
             calls == PropagateCalls(LoopGroups(idx, self.TLE_list), time_array, idx,
                                   self.TLE_list)
         IN IF PropagateFailed(calls, self.TLE_list)
            THEN \* the exception of propagate_tle leaves sat_position
                 [op |-> "sat_position", time_array |-> time_array,
                  error |-> "ValueError", propagated |-> calls,
                  closest_epoch_idx |-> <<>>, sat_position |-> <<>>]
            ELSE [op |-> "sat_position", time_array |-> time_array,
                  error |-> "none", propagated |-> calls,
                  closest_epoch_idx |-> idx,
                  sat_position |-> SatPositions(time_array, idx, self.TLE_list)]

SatPosition ==
    /\ input.kind = "time_array"
    /\ call' = SatPositionResult(tle, input.time_array)
    /\ UNCHANGED <<conj, tle, input, db>>

PosInit ==
    /\ conj = NoObject
    /\ tle \in TLEHandlers
    /\ input \in {[kind |-> "time_array", time_array |-> a] : a \in TimeArrays}
    /\ call = NoCall
    /\ db = NoDatabase

PosNext == SatPosition

PosSpec == PosInit /\ [][PosNext]_vars

(***************************************************************************)
(* The pass segmenter (satellite_conjunction.py, "seperate individual      *)
(* passes").                                                               *)
(***************************************************************************)
Pass(t, p) == [time |-> t, position |-> p]

\* diffs = ct[1:] - ct[:-1]
Diffs(ct) == [i \in 1..(Len(ct) - 1) |-> ct[i + 1] - ct[i]]

JumpsAtEqual(diffs, deltime) ==
    Select([i \in DOMAIN diffs |-> i], [i \in DOMAIN diffs |-> diffs[i] >= deltime])

\* jumps = np.argwhere(diffs > deltime).flatten(); jump j separates the
\* j-th and the (j+1)-th masked sample
Jumps(diffs, deltime) ==
    Select([i \in DOMAIN diffs |-> i], [i \in DOMAIN diffs |-> diffs[i] > deltime])

Slice(a, lo, hi) == IF lo > hi THEN <<>> ELSE SubSeq(a, lo, hi)

\* the "if not np.any(conjunctions)" branch left out
SplitNoEmptyCheck(tt, pp, jumps) ==
    LET n == Len(jumps)
    IN IF n = 0 THEN <<Pass(tt, pp)>>
       ELSE <<Pass(Slice(tt, 1, jumps[1]), Slice(pp, 1, jumps[1]))>>
            \o [i \in 1..(n - 1) |->
                   Pass(Slice(tt, jumps[i] + 1, jumps[i + 1]),
                        Slice(pp, jumps[i] + 1, jumps[i + 1]))]
            \o <<Pass(Slice(tt, jumps[n] + 1, Len(tt)), Slice(pp, jumps[n] + 1, Len(pp)))>>

\* the loop over intermediate passes stopping one short
SplitDropMiddle(tt, pp, jumps) ==
    LET n == Len(jumps)
    IN IF n = 0 THEN (IF tt = <<>> THEN <<>> ELSE <<Pass(tt, pp)>>)
       ELSE <<Pass(Slice(tt, 1, jumps[1]), Slice(pp, 1, jumps[1]))>>
            \o [i \in 1..(n - 2) |->
                   Pass(Slice(tt, jumps[i] + 1, jumps[i + 1]),
                        Slice(pp, jumps[i] + 1, jumps[i + 1]))]
            \o <<Pass(Slice(tt, jumps[n] + 1, Len(tt)), Slice(pp, jumps[n] + 1, Len(pp)))>>

\* the last pass sliced from jumps[-1] instead of jumps[-1]+1
SplitOverlapLast(tt, pp, jumps) ==
    LET n == Len(jumps)
    IN IF n = 0 THEN (IF tt = <<>> THEN <<>> ELSE <<Pass(tt, pp)>>)
       ELSE <<Pass(Slice(tt, 1, jumps[1]), Slice(pp, 1, jumps[1]))>>
            \o [i \in 1..(n - 1) |->
                   Pass(Slice(tt, jumps[i] + 1, jumps[i + 1]),
                        Slice(pp, jumps[i] + 1, jumps[i + 1]))]
            \o <<Pass(Slice(tt, jumps[n], Len(tt)), Slice(pp, jumps[n], Len(pp)))>>

\* the first pass sliced [:jumps[0]] instead of [:jumps[0]+1]
SplitShortFirst(tt, pp, jumps) ==
    LET n == Len(jumps)
    IN IF n = 0 THEN (IF tt = <<>> THEN <<>> ELSE <<Pass(tt, pp)>>)
       ELSE <<Pass(Slice(tt, 1, jumps[1] - 1), Slice(pp, 1, jumps[1] - 1))>>
            \o [i \in 1..(n - 1) |->
                   Pass(Slice(tt, jumps[i] + 1, jumps[i + 1]),
                        Slice(pp, jumps[i] + 1, jumps[i + 1]))]
            \o <<Pass(Slice(tt, jumps[n] + 1, Len(tt)), Slice(pp, jumps[n] + 1, Len(pp)))>>

\* lines 133-147: tt and pp are time_array[conjunctions] and
\* sat_position[conjunctions]; np.any(conjunctions) is tt # <<>>
SplitPasses(tt, pp, jumps) ==
    LET n == Len(jumps)
    IN IF n = 0
       THEN (IF tt = <<>> THEN <<>>                  \* no passes
             ELSE <<Pass(tt, pp)>>)                  \* only one pass
       ELSE \* first pass: [:jumps[0]+1]
            <<Pass(Slice(tt, 1, jumps[1]), Slice(pp, 1, jumps[1]))>>
            \* intermediate passes: [jumps[i]+1 : jumps[i+1]+1]
            \o [i \in 1..(n - 1) |->
                   Pass(Slice(tt, jumps[i] + 1, jumps[i + 1]),
                        Slice(pp, jumps[i] + 1, jumps[i + 1]))]
            \* last pass: [jumps[-1]+1:]
            \o <<Pass(Slice(tt, jumps[n] + 1, Len(tt)), Slice(pp, jumps[n] + 1, Len(pp)))>>

\* segment(timestamps, positions, mask, samplingInterval)
Segment(unix_time_array, time_array, sat_position, conjunctions, deltime) ==
    LET ct == Select(unix_time_array, conjunctions)
    IN SplitPasses(Select(time_array, conjunctions),
                   Select(sat_position, conjunctions),
                   Jumps(Diffs(ct), deltime))

\* concatenation of the passes' time (or position) arrays
RECURSIVE Concat(_, _)
Concat(passes, fld) ==
    IF passes = <<>> THEN <<>>
    ELSE Head(passes)[fld] \o Concat(Tail(passes), fld)

AllTrue(n) == [i \in 1..n |-> TRUE]

\* strictly increasing timestamp sequences with their positions and a
\* mask of the same length
SampleTimes == {SortedSeq(S) : S \in SUBSET (0..(MaxSamples - 1))}

SegInputs ==
    UNION {{[kind |-> "segment", time |-> t, position |-> Propagate(t, [epoch |-> 0]),
             mask |-> m, deltime |-> d] :
                m \in [1..Len(t) -> BOOLEAN], d \in DelTimes} : t \in SampleTimes}

SegmentCall ==
    /\ input.kind = "segment"
    /\ call' = [op |-> "segment",
                passes |-> Segment(input.time, input.time, input.position,
                                   input.mask, input.deltime)]
    /\ UNCHANGED <<conj, tle, input, db>>

\* the passes of the last segmentation fed back as fully-masked input
Resegment ==
    /\ call.op = "segment"
    /\ LET t == Concat(call.passes, "time")
           p == Concat(call.passes, "position")
       IN call' = [op |-> "resegment", first |-> call.passes,
                   passes |-> Segment(t, t, p, AllTrue(Len(t)), input.deltime)]
    /\ UNCHANGED <<conj, tle, input, db>>

SegInit ==
    /\ conj = NoObject
    /\ tle = NoObject
    /\ input \in SegInputs
    /\ call = NoCall
    /\ db = NoDatabase

SegNext == SegmentCall \/ Resegment

SegSpec == SegInit /\ [][SegNext]_vars

(***************************************************************************)
(* SatConj (satellite_conjunction.py): site geometry.                      *)
(***************************************************************************)
\* radius of the model's Earth in metres: the site at the pole is the
\* point <<0, 0, 1>> km of OrbitPath
EarthRadius == 1000

Sites == {[lat |-> 90, lon |-> 0, alt |-> 0], [lat |-> 0, lon |-> 0, alt |-> 0]}

\* pm.geodetic2ecef(site_lat, site_lon, site_alt) at the sites of the model
Geodetic2Ecef(lat, lon, alt) ==
    CASE lat = 90 -> <<0, 0, EarthRadius + alt>>
      [] lat = 0 /\ lon = 0 -> <<EarthRadius + alt, 0, 0>>

\* pm.enu2uvw(0., 0., 1., site_lat, site_lon): the local vertical
Enu2UvwUp(lat, lon) ==
    CASE lat = 90 -> <<0, 0, 1>>
      [] lat = 0 /\ lon = 0 -> <<1, 0, 0>>

\* pm.ecef2geodetic at the points the model's orbit visits (degrees)
Ecef2Geodetic(p) ==
    LET h == Abs(p[1]) + Abs(p[2])
    IN [lat |-> CASE h = 0 /\ p[3] > 0 -> 90
                  [] h = 0 /\ p[3] < 0 -> -90
                  [] h # 0 /\ p[3] = 0 -> 0
                  [] h # 0 /\ p[3] = h -> 45
                  [] h # 0 /\ p[3] = 0 - h -> -45,
        lon |-> CASE p[2] = 0 /\ p[1] >= 0 -> 0
                  [] p[1] = 0 /\ p[2] > 0 -> 90
                  [] p[2] = 0 /\ p[1] < 0 -> 180
                  [] p[1] = 0 /\ p[2] < 0 -> -90]

(***************************************************************************)
(* The zenith criterion.                                                   *)
(***************************************************************************)
Dot(a, b) == a[1] * b[1] + a[2] * b[2] + a[3] * b[3]
VecSub(a, b) == <<a[1] - b[1], a[2] - b[2], a[3] - b[3]>>

\* the argument of arccos, einsum(sat_vec, zen_vec) / norm(sat_vec), kept
\* exact as its numerator and the square of its denominator
CosZenith(sat_vec, zen_vec) ==
    [num |-> Dot(sat_vec, zen_vec), den2 |-> Dot(sat_vec, sat_vec)]

\* cos of a tolerance in degrees: its sign and its square as a fraction
CosDeg(tol) ==
    CASE tol = 0 -> [sgn |-> 1, num |-> 1, den |-> 1]
      [] tol = 30 -> [sgn |-> 1, num |-> 3, den |-> 4]
      [] tol = 45 -> [sgn |-> 1, num |-> 1, den |-> 2]
      [] tol = 60 -> [sgn |-> 1, num |-> 1, den |-> 4]
      [] tol = 90 -> [sgn |-> 0, num |-> 0, den |-> 1]
      [] tol = 120 -> [sgn |-> -1, num |-> 1, den |-> 4]
      [] tol = 135 -> [sgn |-> -1, num |-> 1, den |-> 2]
      [] tol = 150 -> [sgn |-> -1, num |-> 3, den |-> 4]
      [] tol = 180 -> [sgn |-> -1, num |-> 1, den |-> 1]

ToleranceTable == {0, 30, 45, 60, 90, 120, 135, 150, 180}

AngleLessOrEqual(c, tol) ==
    IF c.den2 = 0 THEN FALSE
    ELSE LET k == CosDeg(tol)
         IN CASE c.num >= 0 /\ k.sgn < 0 -> TRUE
              [] c.num >= 0 /\ k.sgn >= 0 -> c.num * c.num * k.den >= k.num * c.den2
              [] c.num < 0 /\ k.sgn >= 0 -> FALSE
              [] c.num < 0 /\ k.sgn < 0 -> c.num * c.num * k.den <= k.num * c.den2

\* np.arccos(c)*180./np.pi < tol.  arccos is strictly decreasing, so the
\* test is cos(angle) > cos(tol), decided on signs and squares.  A zero
\* sat_vec makes c = 0/0 = nan, and nan < tol is False.
AngleLess(c, tol) ==
    IF c.den2 = 0 THEN FALSE
    ELSE LET k == CosDeg(tol)
         IN CASE c.num >= 0 /\ k.sgn < 0 -> TRUE
              [] c.num >= 0 /\ k.sgn >= 0 -> c.num * c.num * k.den > k.num * c.den2
              [] c.num < 0 /\ k.sgn >= 0 -> FALSE
              [] c.num < 0 /\ k.sgn < 0 -> c.num * c.num * k.den < k.num * c.den2

\* sat_vec = sat_position - site_coords; conjunctions = zenith_angle < tolerance
ZenithMask(sat_position, site_coords, zen_vec, tolerance) ==
    [i \in DOMAIN sat_position |->
        AngleLess(CosZenith(VecSub(sat_position[i], site_coords), zen_vec), tolerance)]

\* satellite_conjunctions.py: |sat_lat - radar_lat| < lattol and
\* |sat_lon - radar_lon| < lontol
LatLonMask(sat_position, site_lat, site_lon, tolerance) ==
    [i \in DOMAIN sat_position |->
        LET g == Ecef2Geodetic(sat_position[i])
        IN /\ Abs(g.lat - site_lat) < tolerance[1]
           /\ Abs(g.lon - site_lon) < tolerance[2]]

(***************************************************************************)
(* SatConj: construction and conjunctions(starttime, endtime).             *)
(***************************************************************************)
\* create_tle_library: the catalog is queried with orderby='epoch asc'
SortedLibraries ==
    {l \in SeqsUpTo(TLEs, MaxTLE) :
        \A i \in DOMAIN l : \A j \in DOMAIN l : i < j => l[i].epoch <= l[j].epoch}

\* tolerance is kept as a tuple: <<angle>> for 'zenith', <<dlat, dlon>> for
\* 'latlon' (degrees)
ZenithTolerances == {<<45>>, <<90>>, <<135>>}
LatLonTolerances == {<<50, 100>>}

\* SatConj.__init__ with site_coordinates and create_tle_library
NewSatConj(site, TLE_list, deltime, conjtype, tolerance, coords) ==
    [class |-> "SatConj",
     deltime |-> deltime, conjtype |-> conjtype,
     tolerance |-> tolerance, conjcoords |-> coords,
     site_coords |-> Geodetic2Ecef(site.lat, site.lon, site.alt),
     site_lat |-> site.lat, site_lon |-> site.lon, site_alt |-> site.alt,
     site_zenith |-> Enu2UvwUp(site.lat, site.lon),
     TLE_list |-> TLE_list, TLE_epoch |-> EpochOf(TLE_list)]

\* __init__ stores conjtype as given: a name other than 'zenith' and
\* 'latlon' is accepted at construction
SatConjs ==
    {NewSatConj(site, l, d, "zenith", tol, coords) :
        site \in Sites, l \in SortedLibraries, d \in DelTimes,
        tol \in ZenithTolerances, coords \in {"geo", "mag"}}
    \cup
    {NewSatConj(site, l, d, "latlon", tol, coords) :
        site \in Sites, l \in SortedLibraries, d \in DelTimes,
        tol \in LatLonTolerances, coords \in {"geo", "mag"}}
    \cup
    {NewSatConj(site, l, d, "horizon", <<90>>, coords) :
        site \in Sites, l \in SortedLibraries, d \in DelTimes,
        coords \in {"geo", "mag"}}

MaskAssignedAlways(conjtype) == TRUE

\* `if self.conjtype == 'zenith'` and `if self.conjtype == 'latlon'`: the
\* local `conjunctions` is bound only when one of the two branches runs
MaskAssigned(conjtype) == conjtype \in {"zenith", "latlon"}

\* the call ends in an exception: nothing is returned
Raised(starttime, endtime, error, calls) ==
    [op |-> "conjunctions", starttime |-> starttime, endtime |-> endtime,
     error |-> error, propagated |-> calls,
     time_array |-> <<>>, closest_epoch_idx |-> <<>>,
     sat_position |-> <<>>, conjunctions |-> <<>>, passes |-> <<>>]

\* SatConj.conjunctions(starttime, endtime): the returned passes, with the
\* arrays the call built on the way
ConjunctionsResult(self, starttime, endtime) ==
    LET unix_time_array == Arange(starttime, endtime, self.deltime)
        time_array == unix_time_array
    IN IF unix_time_array # <<>> /\ self.TLE_epoch = <<>>
       THEN \* np.argmin of an empty array
            Raised(starttime, endtime, "ValueError", <<>>)
       ELSE
       LET closest_epoch_idx == ClosestEpochIdx(unix_time_array, self.TLE_epoch)
           calls == PropagateCalls(LoopGroups(closest_epoch_idx, self.TLE_list),
                                   time_array, closest_epoch_idx, self.TLE_list)
       IN IF PropagateFailed(calls, self.TLE_list)
          THEN \* the exception of propagate_tle leaves conjunctions
               Raised(starttime, endtime, "ValueError", calls)
          ELSE
          LET sat_position == SatPositions(time_array, closest_epoch_idx, self.TLE_list)
          IN
          IF self.conjcoords = "mag"
          THEN \* A.basevectors_apex(self, ...) is handed the SatConj instance
               \* as its latitude
               Raised(starttime, endtime, "TypeError", calls)
          ELSE IF self.conjtype = "latlon"
          THEN \* sat_position[0], [1], [2] index rows; radar_lat, radar_lon
               \* and latlontol are not defined
               Raised(starttime, endtime,
                      IF Len(sat_position) < 3 THEN "IndexError" ELSE "NameError",
                      calls)
          ELSE IF ~MaskAssigned(self.conjtype)
          THEN \* neither branch assigned the local `conjunctions` that the
               \* segmenter reads first
               Raised(starttime, endtime, "UnboundLocalError", calls)
          ELSE
          LET conjunctions == ZenithMask(sat_position, self.site_coords,
                                         self.site_zenith, self.tolerance[1])
          IN [op |-> "conjunctions", starttime |-> starttime, endtime |-> endtime,
              error |-> "none", propagated |-> calls, time_array |-> time_array,
              closest_epoch_idx |-> closest_epoch_idx,
              sat_position |-> sat_position, conjunctions |-> conjunctions,
              passes |-> Segment(unix_time_array, time_array, sat_position,
                                 conjunctions, self.deltime)]

ConjunctionsMovingSite(starttime, endtime) ==
    /\ conj.class = "SatConj"
    /\ call' = ConjunctionsResult(conj, starttime, endtime)
    /\ conj' = [conj EXCEPT !.site_lat = 0 - @]
    /\ UNCHANGED <<tle, input, db>>

Conjunctions(starttime, endtime) ==
    /\ conj.class = "SatConj"
    /\ call' = ConjunctionsResult(conj, starttime, endtime)
    /\ UNCHANGED <<conj, tle, input, db>>

Init ==
    /\ conj \in SatConjs
    /\ tle = NoObject
    /\ input = NoInput
    /\ call = NoCall
    /\ db = NoDatabase

Next == \E starttime \in Times, endtime \in Times : Conjunctions(starttime, endtime)

Spec == Init /\ [][Next]_vars

(***************************************************************************)
(* A SatConj and a TLEHandler of one satellite, called any number of      *)
(* times in any order; the library may hold malformed snapshots.           *)
(***************************************************************************)
MixedLibraries ==
    {l \in SeqsUpTo(TLEs \cup BadTLEs, 2) :
        \A i \in DOMAIN l : \A j \in DOMAIN l : i < j => l[i].epoch <= l[j].epoch}

\* the regular time arrays a caller builds (examples.py, gps_position.py)
RegularTimeArrays ==
    {Arange(start, stop, step) : start \in Times, stop \in Times, step \in DelTimes}

\* TLEHandler.sat_position(time_array) as one call among others
SatPositionOf(time_array) ==
    /\ tle.class = "TLEHandler"
    /\ call' = SatPositionResult(tle, time_array)
    /\ UNCHANGED <<conj, tle, input, db>>

SessionInit ==
    /\ conj \in {NewSatConj([lat |-> 90, lon |-> 0, alt |-> 0], l, d,
                               "zenith", <<90>>, "geo") :
                    l \in MixedLibraries, d \in DelTimes}
    /\ tle = [class |-> "TLEHandler", TLE_list |-> conj.TLE_list,
              TLE_epoch |-> conj.TLE_epoch]
    /\ input = NoInput
    /\ call = NoCall
    /\ db = NoDatabase

SessionNext ==
    \/ \E starttime \in Times, endtime \in Times : Conjunctions(starttime, endtime)
    \/ \E time_array \in RegularTimeArrays : SatPositionOf(time_array)

SessionSpec == SessionInit /\ [][SessionNext]_vars

(***************************************************************************)
(* amisr_lookup.py and amisr_sat_conj.py: passes while the radar runs.     *)
(***************************************************************************)
\* the experiment table of a radar: rows in time order, one experiment at a
\* time, each with its number and mode
ExperimentRow(k, start_time, end_time) ==
    [experiment |-> k, mode |-> IF k % 2 = 1 THEN "ipy" ELSE "themis",
     start_time |-> start_time, end_time |-> end_time]

RECURSIVE ExperimentTables(_, _)
ExperimentTables(k, from) ==
    {<<>>} \cup
    IF k > MaxExp THEN {}
    ELSE UNION {{<<ExperimentRow(k, w[1], w[2])>> \o rest :
                    rest \in ExperimentTables(k + 1, w[2])} :
                w \in {v \in (from..MaxTime) \X (from..MaxTime) : v[1] < v[2]}}

\* AMISR_lookup.find_experiments(starttime, endtime)
FindExperiments(experiment, starttime, endtime) ==
    LET hit == Select(experiment,
                      [k \in DOMAIN experiment |->
                          /\ experiment[k].end_time > starttime
                          /\ experiment[k].start_time < endtime])
    IN [k \in DOMAIN hit |->
           [experiment_number |-> hit[k].experiment, mode |-> hit[k].mode,
            start_time |-> hit[k].start_time, end_time |-> hit[k].end_time]]

\* p.update({'mode': exp['mode'], 'experiment': exp['experiment_number']})
Labelled(passes, exp) ==
    [i \in DOMAIN passes |->
        [time |-> passes[i].time, position |-> passes[i].position,
         mode |-> exp.mode, experiment |-> exp.experiment_number]]

RECURSIVE PassListRequestedWindow(_, _)
PassListRequestedWindow(self, exp_list) ==
    IF exp_list = <<>> THEN [error |-> "none", pass_list |-> <<>>]
    ELSE LET exp == Head(exp_list)
             run == ConjunctionsResult(self, input.starttime, input.endtime)
         IN IF run.error # "none"
            THEN [error |-> run.error, pass_list |-> <<>>]
            ELSE LET rest == PassListRequestedWindow(self, Tail(exp_list))
                 IN IF rest.error # "none" THEN rest
                    ELSE [error |-> "none",
                          pass_list |-> Labelled(run.passes, exp) \o rest.pass_list]

\* for exp in exp_list: passes = conj.conjunctions(exp_start, exp_end); ...
\* an exception of conj.conjunctions ends the loop
RECURSIVE PassList(_, _)
PassList(self, exp_list) ==
    IF exp_list = <<>> THEN [error |-> "none", pass_list |-> <<>>]
    ELSE LET exp == Head(exp_list)
             run == ConjunctionsResult(self, exp.start_time, exp.end_time)
         IN IF run.error # "none"
            THEN [error |-> run.error, pass_list |-> <<>>]
            ELSE LET rest == PassList(self, Tail(exp_list))
                 IN IF rest.error # "none" THEN rest
                    ELSE [error |-> "none",
                          pass_list |-> Labelled(run.passes, exp) \o rest.pass_list]

\* amisr_sat_conj.conjunctions(starttime, endtime, radar, sid, **sat_conj_kwarg)
AmisrSatConj ==
    /\ input.kind = "amisr_sat_conj"
    /\ LET radar_site == db.site
           self == NewSatConj([lat |-> radar_site.lat, lon |-> radar_site.lon,
                               alt |-> 0],
                              db.catalog, input.deltime, input.conjtype,
                              input.tolerance, input.conjcoords)
           exp_list == FindExperiments(db.experiment, input.starttime, input.endtime)
           out == PassList(self, exp_list)
       IN /\ conj' = self
          /\ call' = [op |-> "amisr_sat_conj", error |-> out.error,
                      exp_list |-> exp_list, pass_list |-> out.pass_list]
    /\ UNCHANGED <<tle, input, db>>

\* the radar's database and the satellite's snapshots on the catalog server
Databases ==
    {[radar |-> "pfisr", site |-> site, experiment |-> experiment,
      catalog |-> catalog] :
        site \in Sites, experiment \in ExperimentTables(1, 0),
        catalog \in {l \in SortedLibraries : Len(l) <= 1}}

AmisrInputs ==
    {[kind |-> "amisr_sat_conj", starttime |-> starttime, endtime |-> endtime,
      deltime |-> deltime, conjtype |-> "zenith", tolerance |-> tolerance,
      conjcoords |-> "geo"] :
        starttime \in Times, endtime \in Times, deltime \in DelTimes,
        tolerance \in ZenithTolerances}

AmisrInit ==
    /\ conj = NoObject
    /\ tle = NoObject
    /\ input \in AmisrInputs
    /\ call = NoCall
    /\ db \in Databases

AmisrNext == AmisrSatConj

AmisrSpec == AmisrInit /\ [][AmisrNext]_vars

(***************************************************************************)
(* satellite_conjunctions.py: the function conjunctions(starttime,         *)
(* endtime, radar, sid, deltime, lattol, lontol, conjcoords, return_all).  *)
(***************************************************************************)
\* for i in range(len(TLE_epoch)): X, Y, Z = propagate_tle(subset_times,
\* TLE_list[i]); gdlat, gdlon, gdalt = pm.ecef2geodetic(X, Y, Z); extend
GeodeticPositions(time_array, closest_epoch, TLE_list) ==
    LET ecef == AppendGroups(Range(Len(TLE_list)), time_array, closest_epoch,
                             TLE_list)
    IN [k \in DOMAIN ecef |-> Ecef2Geodetic(ecef[k])]

\* np.argwhere((unix_time_array >= exp.start_time) & (unix_time_array < exp.end_time))
InExperiment(unix_time_array, exp) ==
    [k \in DOMAIN unix_time_array |->
        unix_time_array[k] >= exp.start_time /\ unix_time_array[k] < exp.end_time]

\* np.all([np.abs(sat_lat - radar_lat) < lattol, np.abs(sat_lon - radar_lon) < lontol], axis=0)
BoxMask(sat_geo, radar_site, lattol, lontol) ==
    [k \in DOMAIN sat_geo |->
        /\ Abs(sat_geo[k].lat - radar_site.lat) < lattol
        /\ Abs(sat_geo[k].lon - radar_site.lon) < lontol]

AveragePassTimeMidpoint(p, radar_site) ==
    [num |-> p.time[1] + p.time[Len(p.time)], den |-> 2]

\* the "average pass time" (t[idx1] + t[idx2])/2, kept as a fraction
AveragePassTime(p, radar_site) ==
    LET idx1 == ArgMin([i \in DOMAIN p.position |->
                           Abs(p.position[i].lat - radar_site.lat)])
        idx2 == ArgMin([i \in DOMAIN p.position |->
                           Abs(p.position[i].lon - radar_site.lon)])
    IN [num |-> p.time[idx1] + p.time[idx2], den |-> 2]

\* the passes of one experiment with p['APT'] and p['mode']
ExperimentPasses(unix_time_array, sat_position, exp, radar_site, deltime, lattol, lontol) ==
    LET tidx == InExperiment(unix_time_array, exp)
        sat_time == Select(unix_time_array, tidx)
        sat_geo == Select(sat_position, tidx)
        conjunctions == BoxMask(sat_geo, radar_site, lattol, lontol)
        passes == Segment(sat_time, sat_time, sat_geo, conjunctions, deltime)
    IN [i \in DOMAIN passes |->
           [time |-> passes[i].time,
            lat |-> [k \in DOMAIN passes[i].position |-> passes[i].position[k].lat],
            lon |-> [k \in DOMAIN passes[i].position |-> passes[i].position[k].lon],
            APT |-> AveragePassTime(passes[i], radar_site),
            mode |-> exp.mode]]

\* for exp in exp_list: ... pass_list.extend(passes) or the APT of each
RECURSIVE ExtendPassList(_, _, _, _, _, _, _, _)
ExtendPassList(exp_list, unix_time_array, sat_position, radar_site, deltime, lattol, lontol, return_all) ==
    IF exp_list = <<>> THEN <<>>
    ELSE LET passes == ExperimentPasses(unix_time_array, sat_position,
                                        Head(exp_list), radar_site, deltime,
                                        lattol, lontol)
         IN (IF return_all THEN passes
             ELSE [i \in DOMAIN passes |-> passes[i].APT])
            \o ExtendPassList(Tail(exp_list), unix_time_array, sat_position,
                              radar_site, deltime, lattol, lontol, return_all)

SatelliteConjunctionsRaised(error, calls) ==
    [op |-> "satellite_conjunctions", error |-> error, propagated |-> calls,
     time_array |-> <<>>, closest_epoch |-> <<>>, sat_position |-> <<>>,
     exp_list |-> <<>>, pass_list |-> <<>>]

\* the snapshots come from the catalog server (the query's whole-day epoch
\* range holds every snapshot of db.catalog), the experiments and the site
\* from the radar's database
SatelliteConjunctionsResult(starttime, endtime, deltime, lattol, lontol, return_all) ==
    LET TLE_list == db.catalog
        TLE_epoch == EpochOf(TLE_list)
        unix_time_array == Arange(starttime, endtime, deltime)
        time_array == unix_time_array
    IN IF unix_time_array # <<>> /\ TLE_epoch = <<>>
       THEN \* np.argmin of an empty array
            SatelliteConjunctionsRaised("ValueError", <<>>)
       ELSE
       LET closest_epoch == ClosestEpochIdx(unix_time_array, TLE_epoch)
           calls == PropagateCalls(Range(Len(TLE_epoch)), time_array,
                                   closest_epoch, TLE_list)
       IN IF PropagateFailed(calls, TLE_list)
          THEN SatelliteConjunctionsRaised("ValueError", calls)
          ELSE
          LET sat_position == GeodeticPositions(time_array, closest_epoch, TLE_list)
              exp_list == Select(db.experiment,
                                 [k \in DOMAIN db.experiment |->
                                     /\ db.experiment[k].end_time > starttime
                                     /\ db.experiment[k].start_time < endtime])
          IN [op |-> "satellite_conjunctions", error |-> "none",
              propagated |-> calls, time_array |-> time_array,
              closest_epoch |-> closest_epoch, sat_position |-> sat_position,
              exp_list |-> exp_list,
              pass_list |-> ExtendPassList(exp_list, unix_time_array,
                                           sat_position, db.site, deltime,
                                           lattol, lontol, return_all)]

SatelliteConjunctions ==
    /\ input.kind = "satellite_conjunctions"
    /\ input.conjcoords = "geo"
    /\ call' = SatelliteConjunctionsResult(input.starttime, input.endtime,
                                           input.deltime, input.lattol,
                                           input.lontol, input.return_all)
    /\ UNCHANGED <<conj, tle, input, db>>

SatelliteConjunctionsDatabases ==
    {[radar |-> "pfisr", site |-> site, experiment |-> experiment,
      catalog |-> catalog] :
        site \in Sites, experiment \in ExperimentTables(1, 0),
        catalog \in {l \in SortedLibraries : Len(l) <= 2}}

SatelliteConjunctionsInputs ==
    {[kind |-> "satellite_conjunctions", starttime |-> starttime,
      endtime |-> endtime, deltime |-> deltime, lattol |-> tol[1],
      lontol |-> tol[2], conjcoords |-> "geo", return_all |-> return_all] :
        starttime \in Times, endtime \in Times, deltime \in DelTimes,
        tol \in LatLonTolerances, return_all \in BOOLEAN}

SatelliteConjunctionsInit ==
    /\ conj = NoObject
    /\ tle = NoObject
    /\ input \in {i \in SatelliteConjunctionsInputs : i.starttime <= i.endtime}
    /\ call = NoCall
    /\ db \in SatelliteConjunctionsDatabases

SatelliteConjunctionsNext == SatelliteConjunctions

SatelliteConjunctionsSpec ==
    SatelliteConjunctionsInit /\ [][SatelliteConjunctionsNext]_vars

\* the same call for a satellite whose catalog holds a single snapshot
SingleSnapshotInit ==
    /\ conj = NoObject
    /\ tle = NoObject
    /\ input \in {i \in SatelliteConjunctionsInputs : i.starttime <= i.endtime}
    /\ call = NoCall
    /\ db \in {d \in SatelliteConjunctionsDatabases : Len(d.catalog) = 1}

SingleSnapshotSpec == SingleSnapshotInit /\ [][SatelliteConjunctionsNext]_vars

(***************************************************************************)
(* propagate_tle: the rotation from TEME to PEF of one propagated          *)
(* position.                                                               *)
(***************************************************************************)
Coords == (0 - MaxCoord)..MaxCoord

\* the body of the loop of propagate_tle after tle.propagate, for the
\* position the propagator returned at time t
RotateToPEF ==
    /\ input.kind = "position_TEME"
    /\ call' = [op |-> "rotate", GMST |-> GMST(input.t),
                position_PEF |-> Rotate(GMST(input.t), input.position_TEME)]
    /\ UNCHANGED <<conj, tle, input, db>>

RotInit ==
    /\ conj = NoObject
    /\ tle = NoObject
    /\ input \in {[kind |-> "position_TEME", t |-> t, position_TEME |-> <<x, y, z>>] :
                    t \in Times, x \in Coords, y \in Coords, z \in Coords}
    /\ call = NoCall
    /\ db = NoDatabase

RotNext == RotateToPEF

RotSpec == RotInit /\ [][RotNext]_vars

(***************************************************************************)
(* map_prn.py: find_date_index.                                            *)
(***************************************************************************)
Dates == 0..MaxDate

\* np.argwhere(mask).flatten(): the indices where mask is TRUE, ascending
ArgWhere(mask) == Select([k \in DOMAIN mask |-> k], mask)

DateRangeHitsEndInclusive(startdates, enddates, targdate) ==
    ArgWhere([k \in DOMAIN startdates |->
                 targdate >= startdates[k] /\ targdate <= enddates[k]])

\* np.argwhere((targdate >= startdates) & (targdate < enddates)).flatten()
DateRangeHits(startdates, enddates, targdate) ==
    ArgWhere([k \in DOMAIN startdates |->
                 targdate >= startdates[k] /\ targdate < enddates[k]])

\* find_date_index(startdates, enddates, targdate): element [0] of the
\* hits, its IndexError turned into ValueError
FindDateIndexResult(startdates, enddates, targdate) ==
    LET hits == DateRangeHits(startdates, enddates, targdate)
    IN IF hits = <<>>
       THEN [op |-> "find_date_index", error |-> "ValueError", tidx |-> 0]
       ELSE [op |-> "find_date_index", error |-> "none", tidx |-> hits[1]]

FindDateIndex ==
    /\ input.kind = "dates"
    /\ call' = FindDateIndexResult(input.startdates, input.enddates, input.targdate)
    /\ UNCHANGED <<conj, tle, input, db>>

\* start and end date arrays of one length n, as the dictionary holds them
DateInputs(n) ==
    {[kind |-> "dates", startdates |-> startdates, enddates |-> enddates,
      targdate |-> targdate] :
        startdates \in [1..n -> Dates], enddates \in [1..n -> Dates],
        targdate \in Dates}

DateInit ==
    /\ conj = NoObject
    /\ tle = NoObject
    /\ \E n \in 0..MaxRows : input \in DateInputs(n)
    /\ call = NoCall
    /\ db = NoDatabase

DateNext == FindDateIndex

DateSpec == DateInit /\ [][DateNext]_vars

(***************************************************************************)
(* map_prn: the PRN table and the lookups prn2norad and prn2svn.  A line   *)
(* of the table is a record: "header", "blank" (splits into no fields),    *)
(* "closed" (fields 0, 1, 2, 7 and 11 present) or "open" (no field 11).    *)
(***************************************************************************)
HeaderLength == 22
FirstPRN == 1
PRNLimit == 32

PRNs == {PRNLimit - 1, PRNLimit}

\* dt.date.today(): no date of the table or of a query is later
Today == MaxDate

Header == [k \in 1..HeaderLength |-> [kind |-> "header"]]

\* lines below the header; the satellite launched on day d has SVN d + 1
\* and NORAD id 100 + d + 1, and a closed assignment lasts one day
TableLines ==
    {[kind |-> "blank"]}
    \cup {[kind |-> "closed", prn |-> prn, svn |-> d + 1, satnum |-> 100 + d + 1,
           start |-> d, end |-> d + 1] : prn \in PRNs, d \in 0..(MaxDate - 1)}
    \cup {[kind |-> "open", prn |-> prn, svn |-> d + 1, satnum |-> 100 + d + 1,
           start |-> d] : prn \in PRNs, d \in Dates}

\* the lines after the header that split into fields, in table order
ParsedRows(prn_table) ==
    SelectSeq(SubSeq(prn_table, HeaderLength + 1, Len(prn_table)),
              LAMBDA line : line.kind # "blank")

\* field 11 of the line, or today's date when the line has none
EndTime(line) == IF line.kind = "open" THEN Today ELSE line.end

\* retrieve_prn_mapping_info(): one entry for each i of range(1, 32)
RetrievePrnMappingInfo(prn_table) ==
    LET rows == ParsedRows(prn_table)
    IN [i \in FirstPRN..(PRNLimit - 1) |->
          LET idx == ArgWhere([k \in DOMAIN rows |-> rows[k].prn = i])
          IN [SVN |-> [j \in DOMAIN idx |-> rows[idx[j]].svn],
              NORADID |-> [j \in DOMAIN idx |-> rows[idx[j]].satnum],
              STARTTIME |-> [j \in DOMAIN idx |-> rows[idx[j]].start],
              ENDTIME |-> [j \in DOMAIN idx |-> EndTime(rows[idx[j]])]]]

\* prn2norad / prn2svn: mapping_dict[prn][field][find_date_index(...)]
PrnLookup(op, field, prn_table, prn, date) ==
    LET mapping_dict == RetrievePrnMappingInfo(prn_table)
        failed(error) == [op |-> op, prn |-> prn, date |-> date, error |-> error,
                          value |-> 0, mapping_dict |-> mapping_dict]
    IN IF prn \notin DOMAIN mapping_dict THEN failed("KeyError")
       ELSE LET found == FindDateIndexResult(mapping_dict[prn].STARTTIME,
                                             mapping_dict[prn].ENDTIME, date)
            IN IF found.error # "none" THEN failed(found.error)
               ELSE [op |-> op, prn |-> prn, date |-> date, error |-> "none",
                     value |-> mapping_dict[prn][field][found.tidx],
                     mapping_dict |-> mapping_dict]

Prn2Norad ==
    /\ input.kind = "prn"
    /\ call' = PrnLookup("prn2norad", "NORADID", input.prn_table, input.prn, input.date)
    /\ UNCHANGED <<conj, tle, input, db>>

Prn2Svn ==
    /\ input.kind = "prn"
    /\ call' = PrnLookup("prn2svn", "SVN", input.prn_table, input.prn, input.date)
    /\ UNCHANGED <<conj, tle, input, db>>

\* a table of n lines below the header, and the PRN and date looked up
PrnInputs(n) ==
    {[kind |-> "prn", prn_table |-> Header \o body, prn |-> prn, date |-> date] :
        body \in [1..n -> TableLines], prn \in PRNs, date \in Dates}

PrnInit ==
    /\ conj = NoObject
    /\ tle = NoObject
    /\ \E n \in 0..MaxRows : input \in PrnInputs(n)
    /\ call = NoCall
    /\ db = NoDatabase

PrnNext == Prn2Norad \/ Prn2Svn

PrnSpec == PrnInit /\ [][PrnNext]_vars

(***************************************************************************)
(* TLEHandler.__init__ and load_tle: the library read from a file.         *)
(***************************************************************************)
\* the lines of a catalog text: line 1 of a TLE carries the epoch (columns
\* 18..32), line 2 the orbital elements
Line1(epoch) == [line |-> 1, epoch |-> epoch]
Line2 == [line |-> 2]

\* the text of a TLE file: TLEs one after the other in the order they were
\* written, with or without a last line that has no partner
RECURSIVE TextOf(_)
TextOf(TLE_list) ==
    IF TLE_list = <<>> THEN <<>>
    ELSE <<Line1(Head(TLE_list).epoch), Line2>> \o TextOf(Tail(TLE_list))

TleFiles ==
    {TextOf(l) \o rest :
        l \in SeqsUpTo(TLEs, MaxTLE),
        rest \in {<<>>, <<Line2>>} \cup {<<Line1(e)>> : e \in Epochs}}

\* [[split[2*i], split[2*i+1]] for i in range(len(split)//2)], each pair
\* kept as the snapshot whose epoch its first line carries
SplitTLEs(split) ==
    [i \in 1..(Len(split) \div 2) |-> [epoch |-> split[2 * i - 1].epoch]]

\* TLEHandler(sid): load_tle reads the file of the satellite; open() raises
\* when the local library has no file for sid
LoadTle ==
    /\ input.kind \in {"tle_file", "no_tle_file"}
    /\ tle.class = "none"
    /\ call.op = "none"
    /\ IF input.kind = "no_tle_file"
       THEN /\ tle' = tle
            /\ call' = [op |-> "load_tle", error |-> "FileNotFoundError"]
       ELSE /\ LET split == input.output
                   TLE_list == SplitTLEs(split)
               IN tle' = [class |-> "TLEHandler", TLE_list |-> TLE_list,
                          TLE_epoch |-> EpochOf(TLE_list)]
            /\ call' = [op |-> "load_tle", error |-> "none"]
    /\ UNCHANGED <<conj, input, db>>

\* SatConj(site_lat, site_lon, site_alt, sat_id, ...): create_tle_library
\* parses whatever the server answers for sat_id, ordered by epoch
CreateTleLibrary ==
    /\ input.kind = "spacetrack"
    /\ conj.class = "none"
    /\ conj' = NewSatConj(input.site, SplitTLEs(input.output), input.deltime,
                          input.conjtype, input.tolerance, input.coords)
    /\ call' = [op |-> "create_tle_library", error |-> "none"]
    /\ UNCHANGED <<tle, input, db>>

\* the answers of the catalog server: the empty text for an identifier it
\* has no snapshot of
SpaceTrackInputs ==
    {[kind |-> "spacetrack", output |-> TextOf(l), site |-> site,
      deltime |-> deltime, conjtype |-> "zenith", tolerance |-> tolerance,
      coords |-> "geo"] :
        l \in SortedLibraries, site \in Sites, deltime \in DelTimes,
        tolerance \in ZenithTolerances}

LoadInit ==
    /\ conj = NoObject
    /\ tle = NoObject
    /\ input \in {[kind |-> "tle_file", output |-> text] : text \in TleFiles}
                \cup {[kind |-> "no_tle_file"]}
                \cup SpaceTrackInputs
    /\ call = NoCall
    /\ db = NoDatabase

LoadNext == LoadTle \/ CreateTleLibrary

LoadSpec == LoadInit /\ [][LoadNext]_vars

(***************************************************************************)
(* C1 and C2: the position resolver.                                       *)
(***************************************************************************)
Resolved == call.op = "sat_position" /\ call.error = "none"

\* C1: the resolver's output has one position per input timestamp and its
\* i-th position is the one propagated for the i-th input timestamp from
\* the snapshot selected for that timestamp (input order is kept).
C1_OrderPreserved ==
    Resolved =>
        /\ Len(call.sat_position) = Len(input.time_array)
        /\ \A i \in DOMAIN input.time_array :
               call.sat_position[i] =
                   PropagateOne(input.time_array[i],
                                tle.TLE_list[call.closest_epoch_idx[i]])

Dist(t, e) == Abs(t - e)

\* C2: for a non-empty library the selected snapshot minimises |t - epoch|
\* over the whole library, and among the minimisers it is the one with the
\* smallest index.
C2_NearestEpochFirstMin ==
    (Resolved /\ tle.TLE_epoch # <<>>) =>
        \A i \in DOMAIN input.time_array :
            LET t == input.time_array[i]
                k == call.closest_epoch_idx[i]
            IN /\ k \in DOMAIN tle.TLE_epoch
               /\ \A j \in DOMAIN tle.TLE_epoch :
                      Dist(t, tle.TLE_epoch[k]) <= Dist(t, tle.TLE_epoch[j])
               /\ \A j \in DOMAIN tle.TLE_epoch :
                      j < k => Dist(t, tle.TLE_epoch[j]) > Dist(t, tle.TLE_epoch[k])

\* a resolution in which one timestamp is equally near two snapshots with
\* different epochs and another lies beyond every epoch of the library
C2_Witness ==
    /\ Resolved
    /\ \E i \in DOMAIN input.time_array :
           \E j \in DOMAIN tle.TLE_epoch :
               /\ j > call.closest_epoch_idx[i]
               /\ tle.TLE_epoch[j] # tle.TLE_epoch[call.closest_epoch_idx[i]]
               /\ Dist(input.time_array[i], tle.TLE_epoch[j])
                      = Dist(input.time_array[i], tle.TLE_epoch[call.closest_epoch_idx[i]])
    /\ \E i \in DOMAIN input.time_array :
           \A j \in DOMAIN tle.TLE_epoch : input.time_array[i] > tle.TLE_epoch[j]

(***************************************************************************)
(* C3 to C7: the pass segmenter.                                           *)
(***************************************************************************)
Segmented == call.op = "segment"

LastOf(a) == a[Len(a)]

\* C3: inside a pass consecutive samples are at most one sampling interval
\* apart; the last sample of a pass and the first of the next are more
\* than one sampling interval apart; two masked samples exactly one
\* sampling interval apart are consecutive samples of one pass.
C3_GapRule ==
    Segmented =>
        LET ct == Select(input.time, input.mask)
        IN /\ \A k \in DOMAIN call.passes : call.passes[k].time # <<>>
           /\ \A k \in DOMAIN call.passes :
                  \A i \in 1..(Len(call.passes[k].time) - 1) :
                      call.passes[k].time[i + 1] - call.passes[k].time[i] <= input.deltime
           /\ \A k \in 1..(Len(call.passes) - 1) :
                  call.passes[k + 1].time[1] - LastOf(call.passes[k].time) > input.deltime
           /\ \A i \in 1..(Len(ct) - 1) :
                  ct[i + 1] - ct[i] = input.deltime =>
                      \E k \in DOMAIN call.passes :
                          \E j \in 1..(Len(call.passes[k].time) - 1) :
                              /\ call.passes[k].time[j] = ct[i]
                              /\ call.passes[k].time[j + 1] = ct[i + 1]

\* two passes, one of which holds two samples exactly one interval apart
C3_Witness ==
    /\ Segmented
    /\ Len(call.passes) >= 2
    /\ \E k \in DOMAIN call.passes :
           \E i \in 1..(Len(call.passes[k].time) - 1) :
               call.passes[k].time[i + 1] - call.passes[k].time[i] = input.deltime

UniformGrid ==
    \A i \in 1..(Len(input.time) - 1) : input.time[i + 1] - input.time[i] = input.deltime

\* maximal runs of consecutive TRUE values of a mask, as <<first, last>>
RunsOf(m) ==
    {r \in (DOMAIN m) \X (DOMAIN m) :
        /\ r[1] <= r[2]
        /\ \A i \in r[1]..r[2] : m[i]
        /\ r[1] = 1 \/ ~m[r[1] - 1]
        /\ r[2] = Len(m) \/ ~m[r[2] + 1]}

\* C4: on a uniform grid whose spacing is the sampling interval the passes
\* are exactly the maximal runs of TRUE of the mask, in time order; mask
\* [T,T,F,T,T,T] at spacing 1 gives two passes of lengths 2 and 3.
C4_OnePassPerRun ==
    (Segmented /\ UniformGrid) =>
        /\ Len(call.passes) = Cardinality(RunsOf(input.mask))
        /\ \A k \in DOMAIN call.passes :
               \E r \in RunsOf(input.mask) :
                   /\ call.passes[k].time = SubSeq(input.time, r[1], r[2])
                   /\ call.passes[k].position = SubSeq(input.position, r[1], r[2])
        /\ \A k \in 1..(Len(call.passes) - 1) :
               call.passes[k].time[1] < call.passes[k + 1].time[1]
        /\ (input.mask = <<TRUE, TRUE, FALSE, TRUE, TRUE, TRUE>> /\ input.deltime = 1) =>
               [k \in DOMAIN call.passes |-> Len(call.passes[k].time)] = <<2, 3>>

\* the mask [T,T,F,T,T,T] on the grid 0..5 with sampling interval 1
C4_Witness ==
    /\ Segmented
    /\ input.time = <<0, 1, 2, 3, 4, 5>>
    /\ input.deltime = 1
    /\ input.mask = <<TRUE, TRUE, FALSE, TRUE, TRUE, TRUE>>
    /\ Len(call.passes) = 2

\* C5: a mask that is FALSE at every sample (or an empty timestamp
\* sequence) gives an empty pass sequence.
C5_EmptyMaskNoPasses ==
    (Segmented /\ \A i \in DOMAIN input.mask : ~input.mask[i]) => call.passes = <<>>

\* several samples, none of them masked
C5_Witness ==
    /\ Segmented
    /\ Len(input.mask) >= 2
    /\ \A i \in DOMAIN input.mask : ~input.mask[i]

Isolated(i) ==
    /\ input.mask[i]
    /\ \A j \in DOMAIN input.time :
           (j # i /\ input.mask[j]) => Abs(input.time[j] - input.time[i]) > input.deltime

\* C6: a masked sample whose masked neighbours are all more than one
\* sampling interval away is returned as a pass of exactly that sample.
C6_IsolatedSampleIsAPass ==
    Segmented =>
        \A i \in DOMAIN input.time :
            Isolated(i) =>
                \E k \in DOMAIN call.passes :
                    /\ call.passes[k].time = <<input.time[i]>>
                    /\ call.passes[k].position = <<input.position[i]>>

\* isolated samples in first, interior and last place of the masked series
C6_Witness ==
    /\ Segmented
    /\ Cardinality({i \in DOMAIN input.time : Isolated(i)}) >= 3

\* C7: segmenting the concatenated passes with an all-true mask and the
\* same sampling interval returns the same passes.
C7_SegmentIdempotent ==
    call.op = "resegment" => call.passes = call.first

\* a re-segmentation of two or more passes, one of them with several samples
C7_Witness ==
    /\ call.op = "resegment"
    /\ Len(call.first) >= 2
    /\ \E k \in DOMAIN call.first : Len(call.first[k].time) >= 2

(***************************************************************************)
(* C8 to C10: the proximity criteria of SatConj.conjunctions.              *)
(***************************************************************************)
ZenithDone ==
    call.op = "conjunctions" /\ call.error = "none" /\ conj.conjtype = "zenith"

\* the zenith angle of sample i of the last call is exactly tol degrees
AngleEquals(i, tol) ==
    LET c == CosZenith(VecSub(call.sat_position[i], conj.site_coords), conj.site_zenith)
        k == CosDeg(tol)
    IN /\ c.den2 # 0
       /\ (c.num > 0) = (k.sgn > 0)
       /\ (c.num < 0) = (k.sgn < 0)
       /\ c.num * c.num * k.den = k.num * c.den2

\* the criterion applied to the positions and site of the last call under
\* another tolerance
MaskUnder(tol) ==
    ZenithMask(call.sat_position, conj.site_coords, conj.site_zenith, tol)

\* C8: with positions and site unchanged, every sample in conjunction under
\* a tolerance is in conjunction under every wider tolerance (and every
\* sample in conjunction under a narrower one is in conjunction under it),
\* and a sample whose zenith angle equals the tolerance is not in
\* conjunction.
C8_ZenithMonotone ==
    ZenithDone =>
        /\ \A tol2 \in ToleranceTable :
               conj.tolerance[1] <= tol2 =>
                   \A i \in DOMAIN call.conjunctions :
                       call.conjunctions[i] => MaskUnder(tol2)[i]
        /\ \A tol1 \in ToleranceTable :
               tol1 <= conj.tolerance[1] =>
                   \A i \in DOMAIN call.conjunctions :
                       MaskUnder(tol1)[i] => call.conjunctions[i]
        /\ \A i \in DOMAIN call.conjunctions :
               AngleEquals(i, conj.tolerance[1]) => ~call.conjunctions[i]

\* a call with one sample in conjunction, one sample exactly at the
\* tolerance, and a sample that only a wider tolerance admits
C8_Witness ==
    /\ ZenithDone
    /\ \E i \in DOMAIN call.conjunctions : call.conjunctions[i]
    /\ \E i \in DOMAIN call.conjunctions : AngleEquals(i, conj.tolerance[1])
    /\ \E tol2 \in ToleranceTable :
           /\ conj.tolerance[1] < tol2
           /\ \E i \in DOMAIN call.conjunctions :
                  /\ ~call.conjunctions[i]
                  /\ MaskUnder(tol2)[i]

\* C9: under the zenith criterion a sample whose satellite position equals
\* the site position is flagged in conjunction (angle 0) for every positive
\* tolerance.
C9_SatelliteAtSiteInConjunction ==
    (ZenithDone /\ conj.tolerance[1] > 0) =>
        \A i \in DOMAIN call.sat_position :
            call.sat_position[i] = conj.site_coords => call.conjunctions[i]

\* C10: with conjtype 'latlon' (geographic frame, a non-empty library and
\* a non-empty sampling grid) SatConj.conjunctions returns, without an
\* error, a mask that is true exactly where |satLat - siteLat| < latTolerance
\* and |satLon - siteLon| < lonTolerance.
C10_LatLonYieldsMask ==
    (call.op = "conjunctions" /\ conj.conjtype = "latlon" /\ conj.conjcoords = "geo"
        /\ call.starttime < call.endtime /\ conj.TLE_list # <<>>) =>
        /\ call.error = "none"
        /\ call.conjunctions =
               LatLonMask(call.sat_position, conj.site_lat, conj.site_lon, conj.tolerance)

(***************************************************************************)
(* C11: an unrecognized criterion name.                                    *)
(***************************************************************************)
UnknownCriterion ==
    call.op = "conjunctions" /\ conj.conjtype \notin {"zenith", "latlon"}

\* C11: a call of SatConj.conjunctions on an object whose criterion name is
\* neither 'zenith' nor 'latlon' ends in an error and returns neither a mask
\* nor a pass list; when no earlier step of the call fails, the error is the
\* one raised for the mask that no branch assigned.
C11_UnknownCriterionFails ==
    UnknownCriterion =>
        /\ call.error # "none"
        /\ call.conjunctions = <<>>
        /\ call.passes = <<>>
        /\ (conj.conjcoords = "geo" /\ conj.TLE_list # <<>>)
               => call.error = "UnboundLocalError"

C11_Witness ==
    /\ UnknownCriterion
    /\ call.starttime < call.endtime
    /\ call.propagated # <<>>
    /\ call.error = "UnboundLocalError"
(***************************************************************************)
(* C12: the empty library.                                                 *)
(***************************************************************************)
\* C12: a call of TLEHandler.sat_position on a library without snapshots
\* ends in an error for every timestamp array, the empty one included, and
\* returns no positions.
C12_EmptyLibraryFails ==
    (call.op = "sat_position" /\ tle.TLE_list = <<>>) =>
        call.error # "none" /\ call.sat_position = <<>>
(***************************************************************************)
(* C15: one call of SatConj.conjunctions per experiment window.            *)
(***************************************************************************)
PassTimes(passes) == [i \in DOMAIN passes |-> passes[i].time]

\* the experiments found adjoin (each starts when its predecessor ends) and
\* every boundary lies on the sampling grid that starts with the first one
AdjoiningChunks(exp_list, deltime) ==
    /\ Len(exp_list) >= 2
    /\ \A k \in 1..(Len(exp_list) - 1) :
          /\ exp_list[k].end_time = exp_list[k + 1].start_time
          /\ (exp_list[k].end_time - exp_list[1].start_time) % deltime = 0

\* C15: when amisr_sat_conj.conjunctions processes adjoining experiment
\* windows, its passes are those of one call of SatConj.conjunctions over
\* the whole span: a run of in-conjunction samples that straddles a
\* boundary between two windows is one pass.
C15_ChunksNeverSplit ==
    (/\ call.op = "amisr_sat_conj"
     /\ call.error = "none"
     /\ AdjoiningChunks(call.exp_list, conj.deltime)) =>
        PassTimes(call.pass_list) =
            PassTimes(ConjunctionsResult(conj, call.exp_list[1].start_time,
                          call.exp_list[Len(call.exp_list)].end_time).passes)
(***************************************************************************)
(* C13: the calls of the propagation primitive.                            *)
(***************************************************************************)
\* C13: in satellite_conjunctions.conjunctions the propagation primitive is
\* called once for each snapshot that is nearest to at least one timestamp,
\* with exactly the timestamps of its group, and for no other snapshot: the
\* calls are as many as the distinct selected snapshot indices.
C13_OneCallPerSelectedSnapshot ==
    (/\ call.op = "satellite_conjunctions"
     /\ call.error = "none"
     /\ call.time_array # <<>>) =>
        LET selected == Unique(call.closest_epoch)
        IN /\ Len(call.propagated) = Len(selected)
           /\ \A k \in DOMAIN call.propagated :
                 /\ call.propagated[k].times # <<>>
                 /\ call.propagated[k].times =
                        Select(call.time_array,
                               [j \in DOMAIN call.closest_epoch |->
                                   call.closest_epoch[j] =
                                       call.propagated[k].snapshot])
           /\ \A i \in DOMAIN selected :
                 Cardinality({k \in DOMAIN call.propagated :
                                call.propagated[k].snapshot = selected[i]}) = 1
(***************************************************************************)
(* C14: an empty timestamp sequence.                                       *)
(***************************************************************************)
EmptyResolution ==
    /\ call.op = "sat_position"
    /\ input.time_array = <<>>
    /\ tle.TLE_list # <<>>

\* C14: TLEHandler.sat_position on a library with at least one snapshot
\* and an empty timestamp sequence returns an empty position series,
\* calls the propagation primitive not at all and raises no error.
C14_EmptyTimestampsEmptySeries ==
    EmptyResolution =>
        /\ call.error = "none"
        /\ call.sat_position = <<>>
        /\ call.propagated = <<>>

C14_Witness == EmptyResolution /\ Len(tle.TLE_list) = MaxTLE
(***************************************************************************)
(* C16: the passes of the experiment windows and their labels.             *)
(***************************************************************************)
Joined == call.op = "amisr_sat_conj" /\ call.error = "none"

\* the passes that carry the label of experiment exp
PassesOf(exp) ==
    Select(call.pass_list,
           [i \in DOMAIN call.pass_list |->
               call.pass_list[i].experiment = exp.experiment_number])

\* C16: amisr_sat_conj.conjunctions runs SatConj.conjunctions once for
\* every experiment the database returned, over that experiment's window:
\* the passes labelled with an experiment are the passes of its window,
\* every timestamp of a pass lies between the start and the end of the
\* experiment whose number and mode the pass carries, and every pass
\* carries the number and mode of a returned experiment.
C16_PassesInsideLabelledWindow ==
    Joined =>
        /\ \A k \in DOMAIN call.exp_list :
              LET exp == call.exp_list[k]
              IN PassTimes(PassesOf(exp)) =
                    PassTimes(ConjunctionsResult(conj, exp.start_time,
                                                 exp.end_time).passes)
        /\ \A i \in DOMAIN call.pass_list :
              LET p == call.pass_list[i]
              IN \E k \in DOMAIN call.exp_list :
                    LET exp == call.exp_list[k]
                    IN /\ p.experiment = exp.experiment_number
                       /\ p.mode = exp.mode
                       /\ \E r \in DOMAIN db.experiment :
                             /\ db.experiment[r].experiment = p.experiment
                             /\ db.experiment[r].mode = p.mode
                       /\ \A j \in DOMAIN p.time :
                             /\ exp.start_time <= p.time[j]
                             /\ p.time[j] <= exp.end_time

C16_Witness ==
    /\ Joined
    /\ Len(call.exp_list) = 2
    /\ call.exp_list[1].end_time < call.exp_list[2].start_time
    /\ \E i \in DOMAIN call.pass_list : \E j \in DOMAIN call.pass_list :
          /\ call.pass_list[i].mode = "ipy"
          /\ call.pass_list[j].mode = "themis"
(***************************************************************************)
(* C17: the order of the library.                                          *)
(***************************************************************************)
\* C17: the epochs of the library that load_tle builds from the text of a
\* file increase strictly with the index: no two snapshots share an epoch
\* and none is earlier than its predecessor.
C17_EpochsStrictlyIncreasing ==
    tle.class = "TLEHandler" =>
        \A i \in DOMAIN tle.TLE_epoch : \A j \in DOMAIN tle.TLE_epoch :
            i < j => tle.TLE_epoch[i] < tle.TLE_epoch[j]
(***************************************************************************)
(* C18: calls leave the objects alone.                                     *)
(***************************************************************************)
\* C18: no call of SatConj.conjunctions or TLEHandler.sat_position, failed
\* or not, changes the snapshot library, the site geometry or the
\* configuration of the SatConj, nor the library of the TLEHandler.
C18_CallsChangeNothing ==
    [][/\ conj'.TLE_list = conj.TLE_list /\ conj'.TLE_epoch = conj.TLE_epoch
       /\ conj'.site_lat = conj.site_lat /\ conj'.site_lon = conj.site_lon
       /\ conj'.site_alt = conj.site_alt
       /\ conj'.site_coords = conj.site_coords
       /\ conj'.site_zenith = conj.site_zenith
       /\ conj'.deltime = conj.deltime /\ conj'.conjtype = conj.conjtype
       /\ conj'.tolerance = conj.tolerance
       /\ conj'.conjcoords = conj.conjcoords
       /\ tle'.TLE_list = tle.TLE_list /\ tle'.TLE_epoch = tle.TLE_epoch]_vars

C18_Witness ==
    /\ call.op = "sat_position"
    /\ call.error # "none"
    /\ conj.class = "SatConj"
    /\ tle.class = "TLEHandler"
(***************************************************************************)
(* C19: a failure of the propagation primitive.                            *)
(***************************************************************************)
\* the last call handed a malformed snapshot to the propagation primitive
FailedGroup(c, TLE_list) ==
    /\ c.op \in {"conjunctions", "sat_position"}
    /\ \E k \in DOMAIN c.propagated : Malformed(TLE_list[c.propagated[k].snapshot])

\* what the next call returns when the objects are as they were built
Untouched(c, self, handler) ==
    IF c.op = "conjunctions"
    THEN c = ConjunctionsResult(self, c.starttime, c.endtime)
    ELSE c = SatPositionResult(handler, c.time_array)

\* C19: a call in which the propagation primitive fails for one snapshot
\* group ends in that error: the primitive is not called again for the
\* group nor for a later one, and no position and no pass is returned.  The
\* call after it returns what it returns on the objects as they were
\* before the failure.
C19_PropagationFailureSurfaced ==
    [][/\ FailedGroup(call', conj.TLE_list) =>
             /\ call'.error = "ValueError"
             /\ call'.sat_position = <<>>
             /\ (call'.op = "conjunctions" => call'.passes = <<>>)
             /\ Malformed(conj.TLE_list[
                     call'.propagated[Len(call'.propagated)].snapshot])
             /\ \A k \in 1..(Len(call'.propagated) - 1) :
                   ~Malformed(conj.TLE_list[call'.propagated[k].snapshot])
             /\ conj' = conj
             /\ tle' = tle
       /\ FailedGroup(call, conj.TLE_list) => Untouched(call', conj, tle)]_vars

C19_Witness ==
    /\ FailedGroup(call, conj.TLE_list)
    /\ Len(call.propagated) = 2
    /\ call.error = "ValueError"
(***************************************************************************)
(* C20: passes of SatConj.conjunctions on its sampling grid.               *)
(***************************************************************************)
\* the index of timestamp t in the grid of the last call
GridIndex(t) == CHOOSE k \in DOMAIN call.time_array : call.time_array[k] = t

\* C20: every pass that SatConj.conjunctions returns is a maximal run of
\* the grid: its timestamps are consecutive grid points, every one of them
\* in conjunction, and the grid point before its first and the one after
\* its last timestamp, where the window has them, are not in conjunction.
\* A mask with a single run gives exactly one pass.
C20_PassesMaximalOnGrid ==
    ZenithDone =>
        /\ \A i \in DOMAIN call.passes :
              LET time == call.passes[i].time
                  first == GridIndex(time[1])
                  last == GridIndex(time[Len(time)])
              IN /\ time # <<>>
                 /\ \A j \in DOMAIN time : time[j] = call.time_array[first + j - 1]
                 /\ \A k \in first..last : call.conjunctions[k]
                 /\ first > 1 => ~call.conjunctions[first - 1]
                 /\ last < Len(call.time_array) => ~call.conjunctions[last + 1]
        /\ Cardinality(RunsOf(call.conjunctions)) = 1 => Len(call.passes) = 1

C20_Witness ==
    /\ ZenithDone
    /\ Len(call.passes) = 1
    /\ Len(call.passes[1].time) = 2
    /\ GridIndex(call.passes[1].time[1]) > 1
    /\ GridIndex(call.passes[1].time[2]) < Len(call.time_array)
(***************************************************************************)
(* C21: the coordinate-frame option.                                       *)
(***************************************************************************)
\* C21: with the zenith criterion, a library that holds a snapshot and
\* either value of the coordinate-frame option ('geo' or 'mag'),
\* SatConj.conjunctions ends without an error and its mask has one flag
\* per grid sample.
C21_BothFramesYieldMask ==
    (/\ call.op = "conjunctions"
     /\ conj.conjtype = "zenith"
     /\ conj.conjcoords \in {"geo", "mag"}
     /\ conj.TLE_list # <<>>
     /\ call.starttime < call.endtime) =>
        /\ call.error = "none"
        /\ Len(call.conjunctions) = Len(Arange(call.starttime, call.endtime,
                                               conj.deltime))
(***************************************************************************)
(* C22: an identifier without snapshots.                                   *)
(***************************************************************************)
\* the catalog text looked up for the identifier holds no snapshot
NoSnapshots ==
    \/ input.kind = "no_tle_file"
    \/ input.kind \in {"tle_file", "spacetrack"} /\ Len(input.output) < 2

\* C22: building a TLEHandler or a SatConj for an identifier that has no
\* snapshots fails where the catalog is looked up: no object with an empty
\* library comes out of it.
C22_UnknownObjectFails ==
    (call.op \in {"load_tle", "create_tle_library"} /\ NoSnapshots) =>
        /\ call.error # "none"
        /\ conj.class = "none"
        /\ tle.class = "none"
(***************************************************************************)
(* C23: the frame rotation.                                                *)
(***************************************************************************)
\* the position p turned clockwise about the polar axis by q quarter turns
QuarterTurnsBack(q, p) ==
    CASE q = 0 -> p
      [] q = 1 -> <<p[2], 0 - p[1], p[3]>>
      [] q = 2 -> <<0 - p[1], 0 - p[2], p[3]>>
      [] q = 3 -> <<0 - p[2], p[1], p[3]>>

\* C23: the rotated position has the norm and the z component of the
\* position the propagator returned, and its x and y are those of the
\* input turned about the polar axis by the angle -GMST.
C23_RotationRigid ==
    call.op = "rotate" =>
        /\ Dot(call.position_PEF, call.position_PEF) =
               Dot(input.position_TEME, input.position_TEME)
        /\ call.position_PEF[3] = input.position_TEME[3]
        /\ call.position_PEF = QuarterTurnsBack(call.GMST, input.position_TEME)

C23_Witness ==
    /\ call.op = "rotate"
    /\ call.GMST = 1
    /\ input.position_TEME = <<1, 2, 1>>
    /\ call.position_PEF = <<2, -1, 1>>
(***************************************************************************)
(* C24: find_date_index.                                                   *)
(***************************************************************************)
\* range i of the arrays covers the target date: start inclusive, end
\* exclusive
Covers(i) == input.startdates[i] <= input.targdate /\ input.targdate < input.enddates[i]

\* C24: find_date_index returns the smallest index whose range covers the
\* target date and raises ValueError exactly when no range covers it (empty
\* arrays, or a target equal to an end date that no other range covers,
\* included).
C24_FirstCoveringRange ==
    call.op = "find_date_index" =>
        IF \E i \in DOMAIN input.startdates : Covers(i)
        THEN /\ call.error = "none"
             /\ Covers(call.tidx)
             /\ \A i \in 1..(call.tidx - 1) : ~Covers(i)
        ELSE call.error = "ValueError"

C24_Witness ==
    /\ call.op = "find_date_index"
    /\ call.error = "ValueError"
    /\ Len(input.startdates) = 2
    /\ input.targdate = input.enddates[1]
    /\ input.startdates[1] < input.enddates[1]
(***************************************************************************)
(* C25: the passes partition the samples in conjunction.                   *)
(***************************************************************************)
\* the index of timestamp t among the samples handed to the segmenter
SampleIndex(t) == CHOOSE k \in DOMAIN input.time : input.time[k] = t

\* C25: the passes in output order, put end to end, are the timestamps in
\* conjunction in time order with their positions; every pass is
\* non-empty, and its time and position arrays have one length, with
\* position[k] the position of the sample at time[k].
C25_PassesPartitionMasked ==
    Segmented =>
        /\ Concat(call.passes, "time") = Select(input.time, input.mask)
        /\ Concat(call.passes, "position") = Select(input.position, input.mask)
        /\ \A i \in DOMAIN call.passes :
              LET p == call.passes[i]
              IN /\ p.time # <<>>
                 /\ Len(p.time) = Len(p.position)
                 /\ \A k \in DOMAIN p.time :
                       /\ input.mask[SampleIndex(p.time[k])]
                       /\ p.position[k] = input.position[SampleIndex(p.time[k])]
        /\ \A i \in DOMAIN call.passes : \A j \in DOMAIN call.passes :
              i # j => \A k \in DOMAIN call.passes[i].time :
                          \A l \in DOMAIN call.passes[j].time :
                              call.passes[i].time[k] # call.passes[j].time[l]

C25_Witness ==
    /\ Segmented
    /\ Len(call.passes) = 3
    /\ Len(input.time) = MaxSamples
    /\ \E i \in DOMAIN input.mask : ~input.mask[i]
    /\ \E i \in DOMAIN call.passes : Len(call.passes[i].time) = 2
(***************************************************************************)
(* C26: the requested window of amisr_sat_conj.conjunctions.               *)
(***************************************************************************)
\* C26: every timestamp of every pass that amisr_sat_conj.conjunctions
\* returns lies in the requested window, from starttime (included) to
\* endtime (excluded), also when an experiment begins before starttime or
\* ends after endtime.
C26_PassesInsideRequestedWindow ==
    (Joined /\ input.starttime < input.endtime) =>
        \A i \in DOMAIN call.pass_list :
            \A k \in DOMAIN call.pass_list[i].time :
                /\ input.starttime <= call.pass_list[i].time[k]
                /\ call.pass_list[i].time[k] < input.endtime
(***************************************************************************)
(* C27: the sampling grid of SatConj.conjunctions.                         *)
(***************************************************************************)
\* C27: the grid of SatConj.conjunctions(starttime, endtime) holds
\* starttime + k*deltime for k = 0, 1, ... as long as the value is below
\* endtime: it starts at starttime when starttime < endtime, never holds
\* endtime or a later time, stops only where the next sample would reach
\* endtime, and is empty when starttime >= endtime.
C27_SamplingGrid ==
    ZenithDone =>
        LET grid == call.time_array
        IN /\ \A k \in DOMAIN grid :
                 /\ grid[k] = call.starttime + (k - 1) * conj.deltime
                 /\ grid[k] < call.endtime
           /\ call.starttime + Len(grid) * conj.deltime >= call.endtime
           /\ call.starttime < call.endtime => grid # <<>> /\ grid[1] = call.starttime
           /\ call.starttime >= call.endtime => grid = <<>>

C27_Witness ==
    /\ ZenithDone
    /\ conj.deltime = 2
    /\ call.starttime = 0
    /\ call.endtime = 4
    /\ call.time_array = <<0, 2>>
(***************************************************************************)
(* C28: the average pass time of satellite_conjunctions.conjunctions.      *)
(***************************************************************************)
Averaged == call.op = "satellite_conjunctions" /\ call.error = "none"

\* i is the first index at which the distances d are smallest
FirstClosest(d, i) ==
    /\ \A j \in DOMAIN d : d[i] <= d[j]
    /\ \A j \in 1..(i - 1) : d[j] > d[i]

\* the passes of the same call made with return_all set
WithAll ==
    SatelliteConjunctionsResult(input.starttime, input.endtime, input.deltime,
                                input.lattol, input.lontol, TRUE).pass_list

\* C28: the APT of a pass is half the sum of the timestamp of the first
\* sample closest in latitude to the site and the timestamp of the first
\* sample closest in longitude to the site, so it lies between the first
\* and the last timestamp of the pass; without return_all the result is
\* the APT of each pass, in pass order.
C28_AveragePassTime ==
    Averaged =>
      LET AllPasses == IF input.return_all THEN call.pass_list ELSE WithAll
      IN
        /\ \A i \in DOMAIN AllPasses :
              LET p == AllPasses[i]
                  dlat == [k \in DOMAIN p.lat |-> Abs(p.lat[k] - db.site.lat)]
                  dlon == [k \in DOMAIN p.lon |-> Abs(p.lon[k] - db.site.lon)]
              IN /\ \E i1 \in DOMAIN p.time : \E i2 \in DOMAIN p.time :
                       /\ FirstClosest(dlat, i1)
                       /\ FirstClosest(dlon, i2)
                       /\ p.APT.num = p.time[i1] + p.time[i2]
                       /\ p.APT.den = 2
                 /\ 2 * p.time[1] <= p.APT.num
                 /\ p.APT.num <= 2 * p.time[Len(p.time)]
        /\ input.return_all => call.pass_list = AllPasses
        /\ ~input.return_all =>
              call.pass_list = [i \in DOMAIN AllPasses |-> AllPasses[i].APT]

C28_Witness ==
    /\ Averaged
    /\ ~input.return_all
    /\ Len(call.pass_list) = 2
    /\ \E i \in DOMAIN WithAll :
          LET p == WithAll[i]
          IN /\ Len(p.time) >= 2
             /\ p.APT.num # p.time[1] + p.time[Len(p.time)]
(***************************************************************************)
(* C29: the PRN mapping dictionary.                                        *)
(***************************************************************************)
LookedUp == call.op \in {"prn2norad", "prn2svn"}

\* C29: the dictionary has an entry for every PRN of the parsed table, the
\* entry holds all the rows of that PRN in four arrays of one length (a
\* row without end date ending today), and a lookup of a PRN that occurs
\* in the table does not fail with KeyError.
C29_EveryTablePrnHasEntry ==
    LookedUp =>
        LET rows == ParsedRows(input.prn_table)
            present == {rows[k].prn : k \in DOMAIN rows}
        IN /\ \A prn \in present :
                 /\ prn \in DOMAIN call.mapping_dict
                 /\ LET entry == call.mapping_dict[prn]
                        n == Cardinality({k \in DOMAIN rows : rows[k].prn = prn})
                    IN /\ Len(entry.SVN) = n
                       /\ Len(entry.NORADID) = n
                       /\ Len(entry.STARTTIME) = n
                       /\ Len(entry.ENDTIME) = n
           /\ call.prn \in present => call.error # "KeyError"
====
